---- MODULE Spec2Model ----
(***************************************************************************)
(* Demo lifecycle controllers of the API-fetching teaching application.    *)
(*                                                                         *)
(* Each step/log page is a React component holding useState fields, an     *)
(* async run function with await points, and setTimeout narration          *)
(* callbacks.  Time is counted in units of 100 ms (every delay in the      *)
(* source is a multiple of 100 ms).  A pending timer carries the time that *)
(* remains until it is due; timers fire in order of their due time, and in *)
(* scheduling order when due together.  A value that may be null is an     *)
(* option: <<>> is null, <<v>> is the value v.  A string built by a        *)
(* template literal is the sequence of its literal chunks and interpolated *)
(* values.  Log entries carry the number of the run that appended them (a  *)
(* history tag; the Date.now() timestamp is left out).                     *)
(***************************************************************************)
EXTENDS Integers, Sequences, FiniteSets, TLC

\* ------------------------------------------------------------------ bounds
\* Run clicks the user makes on the mounted page.
MaxRuns == 2
\* Clicks on the selector buttons of the page.
MaxSelects == 1

\* ------------------------------------------------------------------- state
VARIABLES
    page,      \* which page component is mounted
    ui,        \* the useState fields of the mounted component
    timers,    \* pending setTimeout callbacks, ordered by due time
    runs,      \* one activation of the async run function per Run click
    uncaught,  \* runs one of whose callbacks threw outside any try/catch
    nselects,  \* how many selector buttons the user has clicked
    script,    \* history: how far the user is in Run, wait for success, Reset, Run
    terminals, \* history: how often each run has called setStatus("success" | "error")
    active,    \* App: the id of the selected tab
    hook,      \* UseHook: its useState fields, its timeoutsRef and its pending timers
    overview   \* APIMethodsComparison: its state, refs, pending timer, requests and query

vars == <<page, ui, timers, runs, uncaught, nselects, script, terminals, active, hook, overview>>

Pages == {"FetchBasics", "XhrLegacy", "PromisesAsync",
          "RequestConfig", "ResponseParsing", "ErrorHandling"}

\* ----------------------------------------------------------------- values
None == <<>>
Some(v) == <<v>>

Url(r) == [k |-> "url", r |-> r]             \* the url of the image served to request r
Undefined == [k |-> "undefined", r |-> 0]     \* reading a missing property
ObjectUrl(r) == [k |-> "blob", r |-> r]       \* URL.createObjectURL(blob)

\* Number -> string, as a template literal or string concatenation does it.
Str(code) == CASE code = 200 -> "200" [] code = 404 -> "404" [] OTHER -> "0"

\* response.ok
ok(code) == code >= 200 /\ code <= 299

\* String.prototype.includes / startsWith on chunked strings.
includes(msg, chunk) == \E i \in 1..Len(msg) : msg[i] = chunk
startsWith(msg, chunk) == Len(msg) > 0 /\ msg[1] = chunk

Error(name, message) == [name |-> name, message |-> message]

\* ------------------------------------------------------------- environment
\* What the network can answer.
StatusCodes == {200, 404}
\* fetch() rejects with a TypeError whose text depends on the browser.
FetchFailures == {Error("TypeError", <<"Failed to fetch">>),
                  Error("TypeError", <<"Load failed">>)}
\* response.json() rejects on malformed JSON.
JsonFailure == Error("SyntaxError", <<"Unexpected token">>)
\* Bodies the image api can send: a list whose first element has a url, an
\* empty list, a list whose first element has no url.
Bodies(r) == { <<[hasUrl |-> TRUE, url |-> Url(r)]>>,
               <<>>,
               <<[hasUrl |-> FALSE, url |-> Undefined]>> }

\* --------------------------------------------------------- component state
InitUi ==
    [ step |-> 0, status |-> "idle", imageUrl |-> None, logs |-> <<>>,
      responseData |-> None, responseStatus |-> None,
      message |-> <<>>, errorDetails |-> None, rawPreview |-> <<>>,
      mode |-> "none", activeMethod |-> "none", selectedMethod |-> "none" ]

InitMode(p) ==
    CASE p = "PromisesAsync"   -> "await"
      [] p = "ResponseParsing" -> "json"
      [] p = "ErrorHandling"   -> "success"
      [] OTHER                 -> "none"

\* The closure of one call of the run function.
NewRun(u) ==
    [ pc |-> "start",                 \* the await the call is suspended at
      selectedMode |-> u.mode,        \* the argument of the call
      mode |-> u.mode,                \* `mode` as captured by the handler's closure
      activeMethod |-> u.activeMethod,
      selectedMethod |-> u.selectedMethod,
      response |-> None, data |-> None,
      err |-> None,                   \* the parameter of the catch block, once entered
      byReset |-> FALSE,              \* history: Reset clicked since the call
      byRun |-> FALSE ]               \* history: Run clicked since the call

\* --------------------------------------------------------------- setters
setStep(m, n) == [m EXCEPT !.ui.step = n]
setStatus(m, s) ==
    [m EXCEPT !.ui.status = s,
              !.terminal = IF s \in {"success", "error"} THEN @ + 1 ELSE @]
setImageUrl(m, v) == [m EXCEPT !.ui.imageUrl = v]
setResponseData(m, v) == [m EXCEPT !.ui.responseData = v]
setResponseStatus(m, v) == [m EXCEPT !.ui.responseStatus = v]
setMessage(m, v) == [m EXCEPT !.ui.message = v]
setErrorDetails(m, v) == [m EXCEPT !.ui.errorDetails = v]
setRawPreview(m, v) == [m EXCEPT !.ui.rawPreview = v]
setMode(m, v) == [m EXCEPT !.ui.mode = v]

addLog(m, r, msg, type) ==
    [m EXCEPT !.ui.logs = Append(@, [run |-> r, type |-> type, msg |-> msg])]

\* setTimeout: the callback goes behind every timer due no later than it.
setTimeout(m, r, cb, delay) ==
    LET tq == m.timers
        k  == Cardinality({i \in 1..Len(tq) : tq[i].rem <= delay})
        t  == [rem |-> delay, run |-> r, cb |-> cb, stale |-> FALSE]
    IN  [m EXCEPT !.timers = SubSeq(tq, 1, k) \o <<t>> \o SubSeq(tq, k + 1, Len(tq))]

at(m, pc) == [m EXCEPT !.act.pc = pc]
throw(m) == [m EXCEPT !.threw = TRUE]

\* data[0].url
FirstUrlThrows(data) == Len(data) = 0
\* (bug: reads a property the element does not have)
FirstUrlWrongKey(data) == Undefined
FirstUrl(data) == IF data[1].hasUrl THEN data[1].url ELSE Undefined

\* ============================================================ FetchBasics
\* (bug: the log list is not emptied)
resetFetchBasicsKeepsLogs(m) ==
    LET m1 == setStep(m, 0)
        m2 == setStatus(m1, "idle")
        m3 == setImageUrl(m2, None)
    IN  setResponseData(m3, None)
resetFetchBasics(m) ==
    LET m1 == setStep(m, 0)
        m2 == setStatus(m1, "idle")
        m3 == setImageUrl(m2, None)
        m4 == [m3 EXCEPT !.ui.logs = <<>>]
    IN  setResponseData(m4, None)

\* (bug: the whole narration is scheduled at the click)
runFetchNarratesAll(m, r) ==
    LET m1 == setStatus(resetFetchBasics(m), "loading")
        m2 == addLog(m1, r, <<"Starting fetch request...">>, "info")
        m3 == setTimeout(m2, r, "step1", 5)
        m4 == setTimeout(m3, r, "step2", 14)
        m5 == setTimeout(m4, r, "step3", 24)
    IN  at(m5, "fetch")
runFetch(m, r) ==
    LET m1 == setStatus(resetFetchBasics(m), "loading")
        m2 == addLog(m1, r, <<"Starting fetch request...">>, "info")
        m3 == setTimeout(m2, r, "step1", 5)
        m4 == setTimeout(m3, r, "step2", 14)
    IN  at(m4, "fetch")

runFetchCatch(m, r, error) ==
    at(addLog(setStatus([m EXCEPT !.act.err = Some(error)], "error"), r, <<"Error: ">> \o error.message, "error"), "done")

runFetchResume(m, r, o) ==
    IF m.act.pc = "fetch" THEN
        IF o.k = "reject" THEN runFetchCatch(m, r, o.err)
        ELSE LET m1 == addLog(m, r, <<"Response received. Status: ", Str(o.status)>>, "success")
             IN  IF ~ok(o.status)
                 THEN runFetchCatch(m1, r, Error("Error", <<"HTTP ", "Error. Status: ", Str(o.status)>>))
                 ELSE at([m1 EXCEPT !.act.response = Some(o.status)], "json")
    ELSE \* pc = "json"
        IF o.k = "reject" THEN runFetchCatch(m, r, o.err)
        ELSE LET m1 == setResponseData([m EXCEPT !.act.data = Some(o.data)], Some(o.data))
                 m2 == addLog(m1, r, <<"JSON parsed successfully.">>, "success")
                 m3 == setTimeout(m2, r, "step3", 24)
                 m4 == setTimeout(m3, r, "final", 32)
             IN  at(m4, "done")

runFetchTimer(m, r, cb) ==
    CASE cb = "step1" -> addLog(setStep(m, 1), r, <<"Browser sending HTTP request to API...">>, "info")
      [] cb = "step2" -> addLog(setStep(m, 2), r, <<"API processing request...">>, "info")
      [] cb = "step3" -> addLog(setStep(m, 3), r, <<"Updating UI with fetched data...">>, "info")
      [] cb = "final" ->
            IF FirstUrlThrows(m.act.data[1]) THEN throw(m)
            ELSE LET m1 == setImageUrl(m, Some(FirstUrl(m.act.data[1])))
                     m2 == setStatus(m1, "success")
                 IN  addLog(m2, r, <<"Image rendered successfully.">>, "success")

\* ============================================================== XhrLegacy
resetXhrLegacy(m) ==
    LET m1 == setStep(m, 0)
        m2 == setStatus(m1, "idle")
        m3 == setImageUrl(m2, None)
    IN  [m3 EXCEPT !.ui.logs = <<>>]

toUpperCase(method) == IF method = "xhr" THEN "XHR" ELSE "FETCH"

runXhrFlow(m, r) ==
    LET m1 == setStatus(resetXhrLegacy(m), "loading")
        m2 == addLog(m1, r, <<"Starting ", toUpperCase(m.act.activeMethod), " request flow...">>, "info")
        m3 == setTimeout(m2, r, "step1", 5)
        m4 == setTimeout(m3, r, "step2", 14)
    IN  at(m4, "fetch")

runXhrFlowCatch(m, r, error) ==
    at(addLog(setStatus([m EXCEPT !.act.err = Some(error)], "error"), r, <<"Request failed: ">> \o error.message, "error"), "done")

runXhrFlowResume(m, r, o) ==
    IF m.act.pc = "fetch" THEN
        IF o.k = "reject" THEN runXhrFlowCatch(m, r, o.err)
        ELSE LET m1 == addLog(m, r, <<"Response received with status: ", Str(o.status)>>, "success")
             IN  IF ~ok(o.status)
                 THEN runXhrFlowCatch(m1, r, Error("Error", <<"Request failed">>))
                 ELSE at([m1 EXCEPT !.act.response = Some(o.status)], "json")
    ELSE \* pc = "json"
        IF o.k = "reject" THEN runXhrFlowCatch(m, r, o.err)
        ELSE LET m1 == addLog([m EXCEPT !.act.data = Some(o.data)], r,
                              <<"JSON data parsed successfully">>, "success")
                 m2 == setTimeout(m1, r, "step3", 24)
                 m3 == setTimeout(m2, r, "final", 32)
             IN  at(m3, "done")

runXhrFlowTimer(m, r, cb) ==
    CASE cb = "step1" -> addLog(setStep(m, 1), r,
                                <<"Browser initiating ", toUpperCase(m.act.activeMethod), " request">>, "info")
      [] cb = "step2" -> addLog(setStep(m, 2), r, <<"Request sent to Cat API server">>, "info")
      [] cb = "step3" -> addLog(setStep(m, 3), r,
                                <<IF m.act.activeMethod = "xhr" THEN "Callback" ELSE "Promise",
                                  " processing response">>, "info")
      [] cb = "final" ->
            IF FirstUrlThrows(m.act.data[1]) THEN throw(m)
            ELSE LET m1 == setImageUrl(m, Some(FirstUrl(m.act.data[1])))
                     m2 == setStatus(m1, "success")
                 IN  addLog(m2, r, <<"Image rendered in UI">>, "success")

\* ========================================================== PromisesAsync
resetPromisesAsync(m) ==
    LET m1 == setStep(m, 0)
        m2 == setStatus(m1, "idle")
        m3 == setImageUrl(m2, None)
    IN  [m3 EXCEPT !.ui.logs = <<>>]

runFlow(m, r) ==
    LET selectedMode == m.act.selectedMode
        m1 == setStatus(setMode(resetPromisesAsync(m), selectedMode), "loading")
        m2 == addLog(m1, r, <<"Starting ",
                              IF selectedMode = "then" THEN ".then() chain" ELSE "async/await",
                              " pattern...">>, "info")
        m3 == setTimeout(m2, r, "step1", 5)
        m4 == setTimeout(m3, r, "step2", 12)
    IN  at(m4, "fetch")

runFlowCatch(m, r, error) ==
    at(addLog(setStatus([m EXCEPT !.act.err = Some(error)], "error"), r, <<"Error caught: ">> \o error.message, "error"), "done")

runFlowResume(m, r, o) ==
    IF m.act.pc = "fetch" THEN
        IF o.k = "reject" THEN runFlowCatch(m, r, o.err)
        ELSE LET m1 == addLog(m, r, <<"Response received with status: ", Str(o.status)>>, "success")
             IN  IF ~ok(o.status)
                 THEN runFlowCatch(m1, r, Error("Error", <<"Request failed">>))
                 ELSE at(setTimeout([m1 EXCEPT !.act.response = Some(o.status)], r, "step3", 22), "json")
    ELSE \* pc = "json"
        IF o.k = "reject" THEN runFlowCatch(m, r, o.err)
        ELSE LET m1 == addLog([m EXCEPT !.act.data = Some(o.data)], r,
                              <<"JSON data parsed successfully">>, "success")
             IN  at(setTimeout(m1, r, "final", 32), "done")

runFlowTimer(m, r, cb) ==
    CASE cb = "step1" -> addLog(setStep(m, 1), r, <<"Browser initiating fetch request">>, "info")
      [] cb = "step2" -> addLog(setStep(m, 2), r, <<"Waiting for API response...">>, "info")
      [] cb = "step3" -> addLog(setStep(m, 3), r,
                                IF m.act.selectedMode = "then"
                                THEN <<"Executing .then() chain callbacks">>
                                ELSE <<"Executing await statement for JSON parsing">>, "info")
      [] cb = "final" ->
            LET m1 == setStep(m, 4)
            IN  IF FirstUrlThrows(m.act.data[1]) THEN throw(m1)
                ELSE LET m2 == setImageUrl(m1, Some(FirstUrl(m.act.data[1])))
                         m3 == setStatus(m2, "success")
                         m4 == addLog(m3, r, <<"UI updated with image">>, "success")
                     IN  addLog(m4, r, <<"Total execution time: ", "ms">>, "info")

\* ========================================================== RequestConfig
\* (configDetails only feeds the configuration panel and is left out.)
resetRequestConfig(m) ==
    LET m1 == setStep(m, 0)
        m2 == setStatus(m1, "idle")
        m3 == setResponseStatus(m2, None)
    IN  [m3 EXCEPT !.ui.logs = <<>>]

runConfiguredFetch(m, r) ==
    LET m1 == setStatus(resetRequestConfig(m), "loading")
        m2 == addLog(m1, r, <<"Initializing fetch request configuration...">>, "info")
        m3 == setTimeout(m2, r, "step1", 5)
        m4 == setTimeout(m3, r, "step2", 12)
        m5 == setTimeout(m4, r, "step3", 22)
        m6 == setTimeout(m5, r, "step4", 32)
        m7 == setTimeout(m6, r, "step5", 40)
    IN  at(m7, "fetch")

runConfiguredFetchCatch(m, r, error) ==
    at(addLog(setStatus([m EXCEPT !.act.err = Some(error)], "error"), r, <<"Request failed: ">> \o error.message, "error"), "done")

runConfiguredFetchResume(m, r, o) ==
    IF m.act.pc = "fetch" THEN
        IF o.k = "reject" THEN runConfiguredFetchCatch(m, r, o.err)
        ELSE LET m1 == setTimeout(m, r, "step6", 45)
                 m2 == setResponseStatus(m1, Some(o.status))
                 m3 == addLog(m2, r, <<"Response received with status: ", Str(o.status)>>, "success")
             IN  IF ~ok(o.status)
                 THEN runConfiguredFetchCatch(m3, r, Error("Error", <<"Request failed">>))
                 ELSE at(setTimeout([m3 EXCEPT !.act.response = Some(o.status)], r, "step7", 50), "json")
    ELSE \* pc = "json"
        IF o.k = "reject" THEN runConfiguredFetchCatch(m, r, o.err)
        ELSE LET m1 == addLog(m, r, <<"Response data parsed successfully">>, "success")
             IN  at(setTimeout(m1, r, "final", 55), "done")

runConfiguredFetchTimer(m, r, cb) ==
    CASE cb = "step1" -> addLog(setStep(m, 1), r, <<"Browser preparing fetch() call">>, "info")
      [] cb = "step2" -> addLog(setStep(m, 2), r, <<"Setting HTTP method: ", m.act.selectedMethod>>, "info")
      [] cb = "step3" ->
            LET m1 == addLog(setStep(m, 3), r, <<"Attaching request headers">>, "info")
                m2 == addLog(m1, r, <<"Header: Content-Type: application/json">>, "success")
            IN  addLog(m2, r, <<"Header: x-demo-client: build-it-api-fetching">>, "success")
      [] cb = "step4" ->
            IF m.act.selectedMethod # "GET"
            THEN addLog(setStep(m, 4), r, <<"Preparing request body (JSON)">>, "info")
            ELSE addLog(setStep(m, 4), r, <<"No body needed for GET request">>, "info")
      [] cb = "step5" -> addLog(setStep(m, 5), r, <<"Sending HTTP request to API...">>, "info")
      [] cb = "step6" -> addLog(setStep(m, 6), r, <<"API processing request...">>, "info")
      [] cb = "step7" -> addLog(setStep(m, 7), r, <<"Parsing HTTP response...">>, "info")
      [] cb = "final" -> addLog(setStatus(m, "success"), r, <<"Request completed successfully">>, "success")

\* ======================================================== ResponseParsing
\* (contentType and dataSize only feed the metadata panel and are left out.)
resetResponseParsing(m) ==
    LET m1 == setStep(m, 0)
        m2 == setStatus(m1, "idle")
        m3 == setImageUrl(m2, None)
        m4 == setRawPreview(m3, <<>>)
    IN  [m4 EXCEPT !.ui.logs = <<>>]

runParse(m, r) ==
    LET selectedMode == m.act.selectedMode
        m1 == setStatus(setMode(resetResponseParsing(m), selectedMode), "loading")
        m2 == addLog(m1, r, <<"Starting response parsing with .", selectedMode, "() method">>, "info")
        m3 == setTimeout(m2, r, "step1", 5)
    IN  at(m3, "fetch")

\* (bug: the catch block logs but leaves status alone)
runParseCatchKeepsStatus(m, r, error) ==
    at(addLog([m EXCEPT !.act.err = Some(error)], r, <<"Error: ">> \o error.message, "error"), "done")
runParseCatch(m, r, error) ==
    at(addLog(setStatus([m EXCEPT !.act.err = Some(error)], "error"), r, <<"Error: ">> \o error.message, "error"), "done")

\* JSON.stringify(data, null, 2): never the empty string.
stringify(data) == <<"[">> \o [i \in 1..Len(data) |-> "{..}"] \o <<"]">>

runParseResume(m, r, o) ==
    LET selectedMode == m.act.selectedMode
        pc == m.act.pc
    IN
    IF o.k = "reject" THEN runParseCatch(m, r, o.err)
    ELSE IF pc = "fetch" THEN
        LET m1 == setTimeout([m EXCEPT !.act.response = Some(o.status)], r, "step2", 10)
        IN  IF ~ok(o.status)
            THEN runParseCatch(m1, r, Error("Error", <<"Request failed: ", Str(o.status)>>))
            ELSE at(setTimeout(m1, r, "step3", 18), IF selectedMode = "text" THEN "text" ELSE "json")
    ELSE IF pc = "json" /\ selectedMode = "json" THEN
        LET m1 == addLog([m EXCEPT !.act.data = Some(stringify(o.data))], r,
                         <<"JSON parsing successful">>, "success")
            m2 == addLog(m1, r, <<"Parsed ", "item(s) from response">>, "info")
        IN  at(setTimeout(m2, r, "final", 24), "done")
    ELSE IF pc = "text" THEN
        LET m1 == addLog([m EXCEPT !.act.data = Some(o.data)], r,
                         <<"Text parsing successful">>, "success")
            m2 == addLog(m1, r, <<"Retrieved ", "characters">>, "info")
        IN  at(setTimeout(m2, r, "final", 24), "done")
    ELSE IF pc = "json" THEN \* blob demo: the JSON is read first to get the image url
        IF Len(o.data) = 0 \/ ~o.data[1].hasUrl
        THEN runParseCatch(m, r, Error("Error", <<"No image URL in response">>))
        ELSE at(addLog(m, r, <<"Blob concept: Fetching image as binary data...">>, "info"), "imgfetch")
    ELSE IF pc = "imgfetch" THEN at(m, "blob")
    ELSE \* pc = "blob"
        LET m1 == addLog(m, r, <<"Image blob created successfully">>, "success")
            m2 == addLog(m1, r, <<"Blob size: ", "KB">>, "info")
            m3 == addLog(m2, r, <<"Blob type: ">>, "info")
        IN  at(setTimeout(m3, r, "final", 24), "done")

runParseTimer(m, r, cb) ==
    CASE cb = "step1" -> addLog(setStep(m, 1), r, <<"Sending HTTP request to API...">>, "info")
      [] cb = "step2" ->
            LET m1 == addLog(setStep(m, 2), r,
                             <<"Response received with status: ", Str(m.act.response[1])>>, "success")
            IN  addLog(m1, r, <<"Content-Type: ">>, "info")
      [] cb = "step3" -> addLog(setStep(m, 3), r,
                                <<"Calling response.", m.act.selectedMode, "() to parse body...">>, "info")
      [] cb = "final" ->
            IF m.act.selectedMode \in {"json", "text"}
            THEN LET m1 == setStep(setStatus(m, "success"), 4)
                     m2 == setRawPreview(m1, m.act.data[1])
                 IN  addLog(m2, r, <<"Data size: ", "bytes">>, "info")
            ELSE setImageUrl(setStep(setStatus(m, "success"), 4), Some(ObjectUrl(r)))

\* ========================================================== ErrorHandling
\* (bug: errorDetails is not cleared)
resetErrorHandlingKeepsDetails(m) ==
    LET m1 == setStep(m, 0)
        m2 == setStatus(m1, "idle")
        m3 == setMessage(m2, <<>>)
        m4 == [m3 EXCEPT !.ui.logs = <<>>]
    IN  setResponseStatus(m4, None)
resetErrorHandling(m) ==
    LET m1 == setStep(m, 0)
        m2 == setStatus(m1, "idle")
        m3 == setMessage(m2, <<>>)
        m4 == [m3 EXCEPT !.ui.logs = <<>>]
        m5 == setErrorDetails(m4, None)
    IN  setResponseStatus(m5, None)

NetworkMessage == <<"Cannot connect to the server. Please check your internet connection.">>
HttpMessage == <<"The server returned an error response. Please try again later.">>
ParsingMessage == <<"The server sent data in an unexpected format. Please contact support.">>
GenericMessage == <<"Something went wrong. Please try again.">>

\* (bug: the raw message is shown to the user)
getUserMessageRaw(error, mode) == error.message
getUserMessage(error, mode) ==
    LET msg == error.message
    IN  IF mode = "network" \/ includes(msg, "Failed to fetch") THEN NetworkMessage
        ELSE IF mode = "http" \/ startsWith(msg, "HTTP ") THEN HttpMessage
        ELSE IF mode = "parsing" THEN ParsingMessage
        ELSE GenericMessage

\* (bug: the parsing scenario has no label of its own)
getErrorTypeNoParsing(error, mode) ==
    IF mode = "network" THEN "Network Error"
    ELSE IF mode = "http" THEN "HTTP Error"
    ELSE "Unknown Error"
getErrorType(error, mode) ==
    IF mode = "network" THEN "Network Error"
    ELSE IF mode = "http" THEN "HTTP Error"
    ELSE IF mode = "parsing" THEN "Parsing Error"
    ELSE "Unknown Error"

runRequest(m, r) ==
    LET selectedMode == m.act.selectedMode
        m1 == setStatus(setMode(resetErrorHandling(m), selectedMode), "loading")
        m2 == addLog(m1, r, <<"Starting ", selectedMode, " scenario...">>, "info")
        m3 == setTimeout(m2, r, "step1", 4)
        m4 == setTimeout(m3, r, "step2", 10)
        m5 == IF selectedMode = "http"
              THEN addLog(m4, r, <<"Using invalid endpoint to trigger HTTP error">>, "warning")
              ELSE m4
        m6 == IF selectedMode = "network"
              THEN addLog(m5, r, <<"Using unreachable domain to trigger network error">>, "warning")
              ELSE m5
    IN  at(m6, "fetch")

\* (bug: the scenario is read from the state at the time of the failure)
runRequestCatchCurrentMode(m, r, err) ==
    LET m1 == setErrorDetails([m EXCEPT !.act.err = Some(err)],
                              Some([name |-> err.name, message |-> err.message,
                                    type |-> getErrorType(err, m.ui.mode)]))
        m2 == setTimeout(m1, r, "caught", 18)
        m3 == setTimeout(m2, r, "failed", 26)
    IN  at(m3, "done")
\* (bug: the catch block sets the status itself, and its timer does again)
runRequestCatchSetsStatus(m, r, err) ==
    LET m1 == setErrorDetails([m EXCEPT !.act.err = Some(err)],
                              Some([name |-> err.name, message |-> err.message,
                                    type |-> getErrorType(err, m.act.mode)]))
        m2 == setTimeout(setStatus(m1, "error"), r, "caught", 18)
        m3 == setTimeout(m2, r, "failed", 26)
    IN  at(m3, "done")
runRequestCatch(m, r, err) ==
    LET m1 == setErrorDetails([m EXCEPT !.act.err = Some(err)],
                              Some([name |-> err.name, message |-> err.message,
                                    type |-> getErrorType(err, m.act.mode)]))
        m2 == setTimeout(m1, r, "caught", 18)
        m3 == setTimeout(m2, r, "failed", 26)
    IN  at(m3, "done")

\* JSON.parse("invalid json content")
ParseInvalidJson == Error("SyntaxError", <<"Unexpected token">>)

runRequestResume(m, r, o) ==
    LET selectedMode == m.act.selectedMode
        pc == m.act.pc
    IN
    IF o.k = "reject" THEN runRequestCatch(m, r, o.err)
    ELSE IF pc = "fetch" THEN
        LET m1 == setResponseStatus([m EXCEPT !.act.response = Some(o.status)], Some(o.status))
            m2 == addLog(m1, r, <<"Response received - Status: ", Str(o.status)>>,
                         IF ok(o.status) THEN "success" ELSE "warning")
        IN  IF ~ok(o.status)
            THEN runRequestCatch(addLog(m2, r, <<"HTTP Error detected: ", Str(o.status)>>, "error"),
                                 r, Error("Error", <<"HTTP ", Str(o.status)>>))
            ELSE LET m3 == setTimeout(m2, r, "step3", 18)
                 IN  IF selectedMode = "parsing"
                     THEN at(addLog(m3, r, <<"Attempting to parse response...">>, "info"), "text")
                     ELSE at(addLog(m3, r, <<"Parsing JSON response...">>, "info"), "json")
    ELSE IF pc = "text" THEN
        runRequestCatch(addLog(m, r, <<"Forcing invalid JSON parse...">>, "warning"), r, ParseInvalidJson)
    ELSE \* pc = "json"
        at(setTimeout(m, r, "final", 24), "done")

runRequestTimer(m, r, cb) ==
    CASE cb = "step1" -> addLog(setStep(m, 1), r, <<"Browser sending fetch request...">>, "info")
      [] cb = "step2" -> addLog(setStep(m, 2), r, <<"Waiting for server response...">>, "info")
      [] cb = "step3" -> setStep(m, 3)
      [] cb = "final" ->
            LET m1 == setStatus(setStep(m, 4), "success")
                m2 == setMessage(m1, <<"Everything went well. Data loaded successfully.">>)
            IN  addLog(m2, r, <<"Request completed successfully.">>, "success")
      [] cb = "caught" ->
            LET err == m.act.err[1]
            IN  addLog(setStep(m, 3), r,
                       <<"Error caught: ", err.name, " - ">> \o err.message, "error")
      [] cb = "failed" ->
            LET err == m.act.err[1]
                userMsg == getUserMessage(err, m.act.mode)
                m1 == setMessage(setStatus(setStep(m, 4), "error"), userMsg)
            IN  addLog(m1, r, <<"User message: ">> \o userMsg, "info")

\* ==================================================================== App
\* The navigation shell.  The page it renders keeps its own state; here only
\* the shell's tab selection is modelled (sidebarCollapsed changes layout
\* only and is left out).
TABS ==
    << [id |-> "comparison", component |-> "APIMethodsComparison"],
       [id |-> "xhr",        component |-> "XhrLegacy"],
       [id |-> "promises",   component |-> "PromisesAsync"],
       [id |-> "config",     component |-> "RequestConfig"],
       [id |-> "parsing",    component |-> "ResponseParsing"],
       [id |-> "errors",     component |-> "ErrorHandling"],
       [id |-> "use-hook",   component |-> "UseHook"] >>

\* TABS[i] with the source's indices, which start at 0.
TabAt(i) == TABS[i + 1]
\* TABS.findIndex((t) => t.id === id)
findIndex(id) ==
    IF \E i \in 1..Len(TABS) : TABS[i].id = id
    THEN (CHOOSE i \in 1..Len(TABS) : TABS[i].id = id /\ \A j \in 1..(i - 1) : TABS[j].id # id) - 1
    ELSE -1
\* TABS.find((tab) => tab.id === active)?.component ?? APIMethodsComparison
ActivePage ==
    IF findIndex(active) >= 0 THEN TabAt(findIndex(active)).component ELSE "APIMethodsComparison"
currentIndex == findIndex(active)
total == Len(TABS)

\* ================================================================ UseHook
\* The use() page: an animation of six steps driven by timers whose handles
\* are kept in timeoutsRef.  A handle is the pair of the number of the
\* startAnimation call and the callback; count is that number (history).
delays == <<12, 24, 36, 48, 60>>
EndDelay == 70

StepCb(n) == [k |-> "step", n |-> n]      \* () => setAnimationStep(n)
EndCb == [k |-> "end", n |-> 0]           \* () => setIsAnimating(false)

InitHook ==
    [ animationStep |-> 0, isAnimating |-> FALSE, selectedPath |-> "success",
      timeoutsRef |-> <<>>, timers |-> <<>>, count |-> 0, mounted |-> TRUE ]

\* timeoutsRef.current.forEach(clearTimeout)
clearTimeouts(h) ==
    [h EXCEPT !.timers = SelectSeq(@, LAMBDA t :
        ~\E i \in 1..Len(h.timeoutsRef) : h.timeoutsRef[i] = <<t.run, t.cb>>)]

\* delays.forEach((delay, idx) => { const id = setTimeout(...); timeoutsRef.current.push(id) })
RECURSIVE forEachDelay(_, _)
forEachDelay(h, idx) ==
    IF idx >= Len(delays) THEN h
    ELSE LET h1 == setTimeout(h, h.count, StepCb(idx + 2), delays[idx + 1])
         IN  forEachDelay([h1 EXCEPT !.timeoutsRef = Append(@, <<h.count, StepCb(idx + 2)>>)], idx + 1)

\* (bug: the animation is declared over before its last step)
startAnimationEndsEarly(h, path) ==
    LET h1 == [clearTimeouts(h) EXCEPT !.timeoutsRef = <<>>, !.count = @ + 1]
        h2 == [h1 EXCEPT !.selectedPath = path, !.isAnimating = TRUE, !.animationStep = 1]
        h3 == forEachDelay(h2, 0)
        h4 == setTimeout(h3, h3.count, EndCb, 50)
    IN  [h4 EXCEPT !.timeoutsRef = Append(@, <<h4.count, EndCb>>)]
startAnimation(h, path) ==
    LET h1 == [clearTimeouts(h) EXCEPT !.timeoutsRef = <<>>, !.count = @ + 1]
        h2 == [h1 EXCEPT !.selectedPath = path, !.isAnimating = TRUE, !.animationStep = 1]
        h3 == forEachDelay(h2, 0)
        h4 == setTimeout(h3, h3.count, EndCb, EndDelay)
    IN  [h4 EXCEPT !.timeoutsRef = Append(@, <<h4.count, EndCb>>)]

\* ================================================================ dispatch
reset(m) ==
    CASE page = "FetchBasics"     -> resetFetchBasics(m)
      [] page = "XhrLegacy"       -> resetXhrLegacy(m)
      [] page = "PromisesAsync"   -> resetPromisesAsync(m)
      [] page = "RequestConfig"   -> resetRequestConfig(m)
      [] page = "ResponseParsing" -> resetResponseParsing(m)
      [] page = "ErrorHandling"   -> resetErrorHandling(m)

\* The synchronous part of the run function, up to its first await.
RunStart(m, r) ==
    CASE page = "FetchBasics"     -> runFetch(m, r)
      [] page = "XhrLegacy"       -> runXhrFlow(m, r)
      [] page = "PromisesAsync"   -> runFlow(m, r)
      [] page = "RequestConfig"   -> runConfiguredFetch(m, r)
      [] page = "ResponseParsing" -> runParse(m, r)
      [] page = "ErrorHandling"   -> runRequest(m, r)

\* The run function from the await that settled with outcome o to its next
\* await or its end.
RunResume(m, r, o) ==
    CASE page = "FetchBasics"     -> runFetchResume(m, r, o)
      [] page = "XhrLegacy"       -> runXhrFlowResume(m, r, o)
      [] page = "PromisesAsync"   -> runFlowResume(m, r, o)
      [] page = "RequestConfig"   -> runConfiguredFetchResume(m, r, o)
      [] page = "ResponseParsing" -> runParseResume(m, r, o)
      [] page = "ErrorHandling"   -> runRequestResume(m, r, o)

\* The body of a setTimeout callback of run r.
RunTimer(m, r, cb) ==
    CASE page = "FetchBasics"     -> runFetchTimer(m, r, cb)
      [] page = "XhrLegacy"       -> runXhrFlowTimer(m, r, cb)
      [] page = "PromisesAsync"   -> runFlowTimer(m, r, cb)
      [] page = "RequestConfig"   -> runConfiguredFetchTimer(m, r, cb)
      [] page = "ResponseParsing" -> runParseTimer(m, r, cb)
      [] page = "ErrorHandling"   -> runRequestTimer(m, r, cb)

\* The values the selector buttons of the page can set.
Selectable ==
    CASE page = "XhrLegacy"       -> {"xhr", "fetch"}
      [] page = "PromisesAsync"   -> {"then", "await"}
      [] page = "RequestConfig"   -> {"GET", "POST"}
      [] page = "ResponseParsing" -> {"json", "text", "blob"}
      [] page = "ErrorHandling"   -> {"success", "http", "network", "parsing"}
      [] OTHER                    -> {}

\* --------------------------------------------------------------- outcomes
NoError == Error("", <<>>)
Reject(e) == [k |-> "reject", err |-> e, status |-> 0, data |-> <<>>]
Response(c) == [k |-> "response", err |-> NoError, status |-> c, data |-> <<>>]
Body(d) == [k |-> "body", err |-> NoError, status |-> 0, data |-> d]

\* How the await a run is suspended at can settle.
Outcomes(a, r) ==
    CASE a.pc = "fetch" ->
            IF page = "ErrorHandling" /\ a.selectedMode = "network"
            THEN {Reject(e) : e \in FetchFailures}     \* the domain never resolves
            ELSE {Reject(e) : e \in FetchFailures} \cup {Response(c) : c \in StatusCodes}
      [] a.pc = "json" ->
            {Reject(JsonFailure)} \cup {Body(d) : d \in Bodies(r)}
      [] a.pc = "text" -> {Body(<<"[{..}]">>)}
      [] a.pc = "imgfetch" ->
            {Reject(e) : e \in FetchFailures} \cup {Response(c) : c \in StatusCodes}
      [] a.pc = "blob" -> {Body(<<>>)}
      [] OTHER -> {}

\* The closure of a run whose function has returned and whose callbacks
\* have all run is garbage.
Gone == [NewRun(InitUi) EXCEPT !.pc = "gone"]
Pending(r, tq) == \E i \in 1..Len(tq) : tq[i].run = r
Retire(rs, tq) ==
    [i \in 1..Len(rs) |-> IF rs[i].pc = "done" /\ ~Pending(i, tq) THEN Gone ELSE rs[i]]

\* =================================================== APIMethodsComparison
\* The overview page: four ways to fetch a cat image, an animation cycle of
\* 6300 ms, and the image shown once the cycle has stopped.
Methods == {"native", "axios", "axios-improved", "react-query"}
CycleDelay == 63

\* The package is @tanstack/react-query, whose major version the sources do
\* not fix: lib is 4 or 5.  status and fetching are the query's state.
Libs == {4, 5}

InitOverview(lib) ==
    [ activeMethod |-> "native", catImage |-> None, loading |-> FALSE,
      isAnimating |-> FALSE, animationKey |-> 0, showResult |-> TRUE,
      pendingImageRef |-> None, animationTimeoutRef |-> None,
      timers |-> <<>>,                 \* the pending setTimeout calls
      reqs |-> <<>>,                   \* the calls of the handlers, in order
      writer |-> 0,                    \* history: the call that wrote pendingImageRef last
      queryData |-> None, queryStatus |-> "pending", queryFetching |-> FALSE,
      lib |-> lib ]

\* if (x) on null, undefined or a url
Truthy(x) == x # None /\ x[1].k = "url"

clearTimeout(o, ref) ==
    [o EXCEPT !.timers = SelectSeq(@, LAMBDA t : Some(t.run) # ref)]

\* (bug: the result panel stays hidden after the cycle)
stopAnimationCycleKeepsHidden(o) ==
    LET o1 == IF o.animationTimeoutRef # None
              THEN [clearTimeout(o, o.animationTimeoutRef) EXCEPT !.animationTimeoutRef = None]
              ELSE o
        o2 == [o1 EXCEPT !.isAnimating = FALSE]
    IN  IF Truthy(o2.pendingImageRef) THEN [o2 EXCEPT !.catImage = o2.pendingImageRef] ELSE o2
stopAnimationCycle(o) ==
    LET o1 == IF o.animationTimeoutRef # None
              THEN [clearTimeout(o, o.animationTimeoutRef) EXCEPT !.animationTimeoutRef = None]
              ELSE o
        o2 == [o1 EXCEPT !.isAnimating = FALSE, !.showResult = TRUE]
    IN  IF Truthy(o2.pendingImageRef) THEN [o2 EXCEPT !.catImage = o2.pendingImageRef] ELSE o2

startAnimationCycle(o) ==
    LET o1 == IF o.animationTimeoutRef # None THEN clearTimeout(o, o.animationTimeoutRef) ELSE o
        o2 == [o1 EXCEPT !.isAnimating = TRUE, !.showResult = FALSE, !.catImage = None,
                         !.animationKey = @ + 1]
        o3 == setTimeout(o2, o2.animationKey, "stopAnimationCycle", CycleDelay)
    IN  [o3 EXCEPT !.animationTimeoutRef = Some(o2.animationKey)]

NewRequest(method, pc) == [method |-> method, pc |-> pc]

\* handleNativeFetch, up to its first await
handleNativeFetch(o) ==
    LET o1 == startAnimationCycle([o EXCEPT !.loading = TRUE])
    IN  [o1 EXCEPT !.pendingImageRef = None, !.reqs = Append(@, NewRequest("native", "fetch"))]

\* handleAxios and handleAxiosImproved, up to their await
handleAxios(o, method) ==
    LET o1 == startAnimationCycle([o EXCEPT !.loading = TRUE])
    IN  [o1 EXCEPT !.pendingImageRef = None, !.reqs = Append(@, NewRequest(method, "get"))]

\* handleReactQuery, up to the call of refetch(); a fetch that starts without
\* cached data puts the query in its initial status.
handleReactQuery(o) ==
    LET o1 == startAnimationCycle(o)
    IN  [o1 EXCEPT !.pendingImageRef = None,
                   !.reqs = Append(@, NewRequest("react-query", "refetch")),
                   !.queryFetching = TRUE,
                   !.queryStatus = IF o.queryData = None THEN "pending" ELSE @]

\* isLoading of useQuery({enabled: false}): version 4 reports the status of a
\* query without data, version 5 that status during a fetch only.
isLoading(o) ==
    IF o.lib = 4 THEN o.queryStatus = "pending"
    ELSE o.queryFetching /\ o.queryStatus = "pending"

\* catch (error) { stopAnimationCycle() } setLoading(false)
handleCatch(o, r) ==
    [stopAnimationCycle(o) EXCEPT !.loading = FALSE, !.reqs[r].pc = "done"]

\* pendingImageRef.current = data[0].url; setLoading(false)
handleData(o, r, data) ==
    IF FirstUrlThrows(data) THEN handleCatch(o, r)
    ELSE [o EXCEPT !.pendingImageRef = Some(FirstUrl(data)), !.writer = r,
                   !.loading = FALSE, !.reqs[r].pc = "done"]

\* The continuation of handleNativeFetch after one of its awaits.
handleNativeFetchResume(o, r, oc) ==
    CASE oc.k = "reject" -> handleCatch(o, r)
      [] oc.k = "response" ->
            IF ~ok(oc.status) THEN handleCatch(o, r) ELSE [o EXCEPT !.reqs[r].pc = "json"]
      [] oc.k = "body" -> handleData(o, r, oc.data)

\* The continuation of handleAxios / handleAxiosImproved after the await.
handleAxiosResume(o, r, oc) ==
    CASE oc.k = "reject" -> handleCatch(o, r)
      [] oc.k = "body" -> handleData(o, r, oc.data)

\* The callbacks of refetch(): the promise resolves with the query's result,
\* whose data are the cached ones after a failed fetch.
handleReactQueryThen(o, r, oc) ==
    LET q    == IF oc.k = "body"
                THEN [o EXCEPT !.queryData = Some(oc.data), !.queryStatus = "success",
                               !.queryFetching = FALSE]
                ELSE [o EXCEPT !.queryStatus = IF o.queryData = None THEN "error" ELSE @,
                               !.queryFetching = FALSE]
        done == [q EXCEPT !.reqs[r].pc = "done"]
    IN  IF q.queryData = None THEN done
        ELSE IF FirstUrlThrows(q.queryData[1]) THEN stopAnimationCycle(done)
        ELSE [done EXCEPT !.pendingImageRef = Some(FirstUrl(q.queryData[1])), !.writer = r]

\* How the await of request r can settle.
OverviewOutcomes(o, r) ==
    CASE o.reqs[r].pc = "fetch" ->
            {Reject(e) : e \in FetchFailures} \cup {Response(c) : c \in StatusCodes}
      [] o.reqs[r].pc = "json" -> {Reject(JsonFailure)} \cup {Body(d) : d \in Bodies(r)}
      [] o.reqs[r].pc \in {"get", "refetch"} ->
            {Reject(e) : e \in FetchFailures} \cup {Body(d) : d \in Bodies(r)}
      [] OTHER -> {}

\* ----------------------------------------------------------------- actions
\* Each component is examined mounted on its own: one of the step/log pages,
\* or the shell.
Components == Pages \cup {"App", "UseHook", "APIMethodsComparison"}

Machine(a) == [ui |-> ui, timers |-> timers, act |-> a, threw |-> FALSE, terminal |-> 0]

Init ==
    /\ page \in Components
    /\ ui = [InitUi EXCEPT !.mode = InitMode(page),
                           !.activeMethod = IF page = "XhrLegacy" THEN "xhr" ELSE "none",
                           !.selectedMethod = IF page = "RequestConfig" THEN "GET" ELSE "none"]
    /\ timers = <<>>
    /\ runs = <<>>
    /\ uncaught = {}
    /\ nselects = 0
    /\ script = "fresh"
    /\ terminals = <<>>
    /\ active = "comparison"
    /\ hook = InitHook
    /\ \E lib \in (IF page = "APIMethodsComparison" THEN Libs ELSE {5}) :
           overview = InitOverview(lib)

\* (bug: the Run button is not disabled while loading)
RunClickAlways ==
    /\ page \in Pages
    /\ Len(runs) < MaxRuns
    /\ LET r == Len(runs) + 1
           m == RunStart(Machine(NewRun(ui)), r)
       IN  /\ ui' = m.ui
           /\ timers' = m.timers
           /\ runs' = Append([i \in 1..Len(runs) |-> [runs[i] EXCEPT !.byRun = TRUE]], m.act)
           /\ terminals' = Append(terminals, m.terminal)
    /\ script' = "off"
    /\ UNCHANGED <<page, uncaught, nselects, active, hook, overview>>

\* The Run button: disabled while status is loading.
RunClick ==
    /\ page \in Pages
    /\ ui.status # "loading"
    /\ Len(runs) < MaxRuns
    /\ LET r == Len(runs) + 1
           m == RunStart(Machine(NewRun(ui)), r)
       IN  /\ ui' = m.ui
           /\ timers' = m.timers
           /\ runs' = Append([i \in 1..Len(runs) |-> [runs[i] EXCEPT !.byRun = TRUE]], m.act)
           /\ terminals' = Append(terminals, m.terminal)
    /\ script' = CASE script = "fresh" -> "first"
                   [] script = "reset" -> "second"
                   [] OTHER            -> "off"
    /\ UNCHANGED <<page, uncaught, nselects, active, hook, overview>>

\* Every earlier run is over: its function has returned and its callbacks
\* have all run.
Quiet == \A i \in 1..Len(runs) : runs[i].pc = "gone"

\* A user who clicks Run only once the earlier runs are over.
RunClickQuiet == Quiet /\ RunClick

\* The Reset button: never disabled.
ResetClick ==
    /\ page \in Pages
    /\ ui' = reset(Machine(NewRun(ui))).ui
    /\ timers' = [i \in 1..Len(timers) |-> [timers[i] EXCEPT !.stale = TRUE]]
    /\ runs' = [i \in 1..Len(runs) |-> [runs[i] EXCEPT !.byReset = TRUE]]
    /\ script' = IF script = "first" /\ ui.status = "success" THEN "reset" ELSE "off"
    /\ UNCHANGED <<page, uncaught, nselects, terminals, active, hook, overview>>

\* A selector button (scenario, parsing method, HTTP method, xhr/fetch):
\* never disabled.
Select(v) ==
    /\ v \in Selectable
    /\ ui' = CASE page = "XhrLegacy"     -> [ui EXCEPT !.activeMethod = v]
               [] page = "RequestConfig" -> [ui EXCEPT !.selectedMethod = v]
               [] OTHER                  -> [ui EXCEPT !.mode = v]
    /\ ui' # ui
    /\ nselects < MaxSelects
    /\ nselects' = nselects + 1
    /\ UNCHANGED <<page, timers, runs, uncaught, script, terminals, active, hook, overview>>

\* The await run r is suspended at settles and the run function continues.
Settle(r) ==
    /\ r \in 1..Len(runs)
    /\ \E o \in Outcomes(runs[r], r) :
         LET m == RunResume(Machine(runs[r]), r, o)
         IN  /\ ui' = m.ui
             /\ timers' = m.timers
             /\ runs' = Retire([runs EXCEPT ![r] = m.act], m.timers)
             /\ terminals' = [terminals EXCEPT ![r] = @ + m.terminal]
    /\ UNCHANGED <<page, uncaught, nselects, script, active, hook, overview>>

\* The first pending timer is due: its callback runs.
Fire ==
    /\ timers # <<>>
    /\ Head(timers).rem = 0
    /\ LET t == Head(timers)
           m == RunTimer([Machine(runs[t.run]) EXCEPT !.timers = Tail(timers)], t.run, t.cb)
       IN  /\ ui' = m.ui
           /\ timers' = m.timers
           /\ runs' = Retire(runs, m.timers)
           /\ uncaught' = IF m.threw THEN uncaught \cup {t.run} ELSE uncaught
           /\ terminals' = [terminals EXCEPT ![t.run] = @ + m.terminal]
    /\ UNCHANGED <<page, nselects, script, active, hook, overview>>

\* Time passes until the next timer is due.  (With no timer pending the
\* passing of time changes nothing; the user and the network act at the
\* instants at which some timer is due, before or after its callback.)
Advance ==
    /\ timers # <<>>
    /\ Head(timers).rem > 0
    /\ LET d == Head(timers).rem
       IN  timers' = [i \in 1..Len(timers) |-> [timers[i] EXCEPT !.rem = @ - d]]
    /\ UNCHANGED <<page, ui, runs, uncaught, nselects, script, terminals, active, hook, overview>>

\* A tab button of the sidebar or of the mobile tab strip.
TabClick(i) ==
    /\ page = "App"
    /\ i \in 0..(total - 1)
    /\ active' = TabAt(i).id
    /\ UNCHANGED <<page, ui, timers, runs, uncaught, nselects, script, terminals, hook, overview>>

\* (bug: Next wraps around from the last tab to the first)
goNextWraps ==
    /\ page = "App"
    /\ active' = TabAt((currentIndex + 1) % total).id
    /\ UNCHANGED <<page, ui, timers, runs, uncaught, nselects, script, terminals, hook, overview>>
goNext ==
    /\ page = "App"
    /\ active' = IF currentIndex < total - 1 THEN TabAt(currentIndex + 1).id ELSE active
    /\ UNCHANGED <<page, ui, timers, runs, uncaught, nselects, script, terminals, hook, overview>>

goPrev ==
    /\ page = "App"
    /\ active' = IF currentIndex > 0 THEN TabAt(currentIndex - 1).id ELSE active
    /\ UNCHANGED <<page, ui, timers, runs, uncaught, nselects, script, terminals, hook, overview>>

\* (bug: the path buttons stay enabled during an animation)
PathClickAlways(path) ==
    /\ page = "UseHook"
    /\ hook.mounted
    /\ hook.count < MaxRuns
    /\ hook' = startAnimation(hook, path)
    /\ UNCHANGED <<page, ui, timers, runs, uncaught, nselects, script, terminals, active, overview>>
\* A path button of the use() page: disabled while isAnimating.
PathClick(path) ==
    /\ page = "UseHook"
    /\ hook.mounted
    /\ ~hook.isAnimating
    /\ hook.count < MaxRuns
    /\ hook' = startAnimation(hook, path)
    /\ UNCHANGED <<page, ui, timers, runs, uncaught, nselects, script, terminals, active, overview>>

\* The first pending timer of the use() page is due: its callback runs.
HookFire ==
    /\ page = "UseHook"
    /\ hook.timers # <<>>
    /\ Head(hook.timers).rem = 0
    /\ LET t == Head(hook.timers)
           h == [hook EXCEPT !.timers = Tail(@)]
       IN  hook' = IF t.cb.k = "step" THEN [h EXCEPT !.animationStep = t.cb.n]
                   ELSE [h EXCEPT !.isAnimating = FALSE]
    /\ UNCHANGED <<page, ui, timers, runs, uncaught, nselects, script, terminals, active, overview>>

\* Time passes on the use() page until its next timer is due.
HookAdvance ==
    /\ page = "UseHook"
    /\ hook.timers # <<>>
    /\ Head(hook.timers).rem > 0
    /\ LET d == Head(hook.timers).rem
       IN  hook' = [hook EXCEPT !.timers = [i \in 1..Len(@) |-> [@[i] EXCEPT !.rem = @ - d]]]
    /\ UNCHANGED <<page, ui, timers, runs, uncaught, nselects, script, terminals, active, overview>>

\* The use() page is unmounted: the effect's cleanup clears the timers.
Unmount ==
    /\ page = "UseHook"
    /\ hook.mounted
    /\ hook' = [clearTimeouts(hook) EXCEPT !.mounted = FALSE]
    /\ UNCHANGED <<page, ui, timers, runs, uncaught, nselects, script, terminals, active, overview>>

\* A method tab of the overview page; the tabs are never disabled.
MethodClick(id) ==
    /\ page = "APIMethodsComparison"
    /\ id # overview.activeMethod
    /\ overview' = [overview EXCEPT !.activeMethod = id]
    /\ UNCHANGED <<page, ui, timers, runs, uncaught, nselects, script, terminals, active, hook>>

\* The Run Example button of the selected method: disabled={loading}, or
\* disabled={isLoading} for React Query.  A click on the React Query button
\* during a fetch of the query itself is left out.
RunExample ==
    /\ page = "APIMethodsComparison"
    /\ Len(overview.reqs) < MaxRuns
    /\ IF overview.activeMethod = "react-query"
       THEN ~isLoading(overview) /\ ~overview.queryFetching
       ELSE ~overview.loading
    /\ overview' = CASE overview.activeMethod = "native" -> handleNativeFetch(overview)
                      [] overview.activeMethod = "react-query" -> handleReactQuery(overview)
                      [] OTHER -> handleAxios(overview, overview.activeMethod)
    /\ UNCHANGED <<page, ui, timers, runs, uncaught, nselects, script, terminals, active, hook>>

\* The await of request r of the overview page settles.
OverviewSettle(r) ==
    /\ page = "APIMethodsComparison"
    /\ \E oc \in OverviewOutcomes(overview, r) :
           overview' = CASE overview.reqs[r].method = "native" ->
                                handleNativeFetchResume(overview, r, oc)
                         [] overview.reqs[r].method = "react-query" ->
                                handleReactQueryThen(overview, r, oc)
                         [] OTHER -> handleAxiosResume(overview, r, oc)
    /\ UNCHANGED <<page, ui, timers, runs, uncaught, nselects, script, terminals, active, hook>>

\* The 6300 ms timer of the overview page is due: stopAnimationCycle runs.
OverviewFire ==
    /\ page = "APIMethodsComparison"
    /\ overview.timers # <<>>
    /\ Head(overview.timers).rem = 0
    /\ overview' = stopAnimationCycle([overview EXCEPT !.timers = Tail(@)])
    /\ UNCHANGED <<page, ui, timers, runs, uncaught, nselects, script, terminals, active, hook>>

\* Time passes on the overview page until its timer is due.
OverviewAdvance ==
    /\ page = "APIMethodsComparison"
    /\ overview.timers # <<>>
    /\ Head(overview.timers).rem > 0
    /\ LET d == Head(overview.timers).rem
       IN  overview' = [overview EXCEPT
                           !.timers = [i \in 1..Len(@) |-> [@[i] EXCEPT !.rem = @ - d]]]
    /\ UNCHANGED <<page, ui, timers, runs, uncaught, nselects, script, terminals, active, hook>>

\* All pages; the user clicks Reset and the selectors at any moment and Run
\* once the earlier runs are over.
Next ==
    \/ RunClickQuiet
    \/ ResetClick
    \/ \E v \in Selectable : Select(v)
    \/ \E r \in 1..Len(runs) : Settle(r)
    \/ Fire
    \/ Advance
    \/ \E i \in 0..(total - 1) : TabClick(i)
    \/ goPrev
    \/ goNext
    \/ \E path \in {"success", "error"} : PathClick(path)
    \/ HookFire
    \/ HookAdvance
    \/ Unmount
    \/ \E id \in Methods : MethodClick(id)
    \/ RunExample
    \/ \E r \in 1..Len(overview.reqs) : OverviewSettle(r)
    \/ OverviewFire
    \/ OverviewAdvance

Spec == Init /\ [][Next]_vars

\* FetchBasics; the user clicks Run whenever the button is enabled, so that
\* runs overlap.
InitOverlap == Init /\ page = "FetchBasics"

NextOverlap ==
    \/ RunClick
    \/ ResetClick
    \/ \E r \in 1..Len(runs) : Settle(r)
    \/ Fire
    \/ Advance

SpecOverlap == InitOverlap /\ [][NextOverlap]_vars

\* ================================================================= claims
ImagePages == {"FetchBasics", "XhrLegacy", "PromisesAsync"}

\* Run r is over after this step: its function has returned and its last
\* callback has run.
Ends(r) == runs[r].pc # "gone" /\ runs'[r].pc = "gone"

\* Everything reset() is to clear is cleared.
IsReset(u) ==
    /\ u.status = "idle" /\ u.step = 0 /\ u.logs = <<>>
    /\ u.imageUrl = None /\ u.responseData = None /\ u.message = <<>>
    /\ u.errorDetails = None /\ u.responseStatus = None /\ u.rawPreview = <<>>

HasLog(u, type) == \E i \in 1..Len(u.logs) : u.logs[i].type = type

\* The chunks of emsg occur, in a row, in logmsg.
ContainsMsg(logmsg, emsg) ==
    \E k \in 0..(Len(logmsg) - Len(emsg)) : SubSeq(logmsg, k + 1, k + Len(emsg)) = emsg

HasErrorLog(u, emsg) ==
    \E i \in 1..Len(u.logs) : u.logs[i].type = "error" /\ ContainsMsg(u.logs[i].msg, emsg)

\* C1: after Reset is clicked, no narration callback that was scheduled
\* before that Reset changes status, step, the result fields or logs.
C1_NoCallbackAfterReset ==
    [][(Fire /\ Head(timers).stale) => ui' = ui]_vars

\* C2: a Reset click leaves status idle, step 0, logs empty and every result
\* field cleared, whatever the state was; the reset() at the start of a Run
\* does the same, so that after the Run click step is 0, the result fields
\* are cleared and logs holds only what the new run appended.
C2_ResetClears ==
    [][ /\ ResetClick => IsReset(ui')
        /\ RunClick => /\ IsReset([ui' EXCEPT !.status = "idle", !.logs = <<>>])
                       /\ ui'.status = "loading"
                       /\ \A i \in 1..Len(ui'.logs) : ui'.logs[i].run = Len(runs')
      ]_vars

C2_Witness ==
    /\ page = "ErrorHandling"
    /\ script = "reset"
    /\ IsReset(ui)

\* C3: while status is loading the Run trigger does nothing: the Run handler
\* cannot run, so no second request starts and no log entry is appended.
C3_RunDisabledWhileLoading ==
    ui.status = "loading" => ~ENABLED RunClick

C3_Witness ==
    /\ ui.status = "loading"
    /\ Len(runs) = 1
    /\ Len(runs) < MaxRuns
    /\ ui.step = 2

\* C4: there are never two runs in flight at once (a run is in flight from
\* its Run click until its request has settled and its timers have fired).
C4_OneRunInFlight ==
    Cardinality({r \in 1..Len(runs) : runs[r].pc # "gone"}) <= 1

\* C5: on the image pages a run whose request returns 2xx with a list whose
\* first element has a url, and which no Reset click interrupts, ends with
\* status success, imageUrl equal to that url and a log entry of kind
\* success.
C5_SuccessfulRun ==
    [][\A r \in 1..Len(runs) :
          ( /\ page \in ImagePages
            /\ Ends(r)
            /\ ~runs[r].byReset
            /\ runs[r].response # None /\ ok(runs[r].response[1])
            /\ runs[r].data = Some(<<[hasUrl |-> TRUE, url |-> Url(r)]>>) )
          => /\ ui'.status = "success"
             /\ ui'.imageUrl = Some(Url(r))
             /\ HasLog(ui', "success")
      ]_vars

C5_Witness ==
    /\ page \in ImagePages
    /\ script = "first"
    /\ runs = <<Gone>>
    /\ ui.status = "success"
    /\ ui.imageUrl = Some(Url(1))
    /\ HasLog(ui, "success")

\* C6: on the Error Handling page a run whose request returns a non-2xx
\* response, and which no Reset click interrupts, ends with status error,
\* with an error-kind log entry whose text contains the status code, and
\* with a user-facing message that differs from errorDetails.message.
C6_HttpErrorReported ==
    [][\A r \in 1..Len(runs) :
          ( /\ page = "ErrorHandling"
            /\ Ends(r)
            /\ ~runs[r].byReset
            /\ runs[r].response # None /\ ~ok(runs[r].response[1]) )
          => /\ ui'.status = "error"
             /\ \E i \in 1..Len(ui'.logs) :
                   /\ ui'.logs[i].type = "error"
                   /\ includes(ui'.logs[i].msg, Str(runs[r].response[1]))
             /\ ui'.errorDetails # None
             /\ ui'.message # ui'.errorDetails[1].message
      ]_vars

C6_Witness ==
    /\ page = "ErrorHandling"
    /\ script = "first"
    /\ runs = <<Gone>>
    /\ ui.status = "error"
    /\ ui.responseStatus = Some(404)
    /\ ui.message = HttpMessage
    /\ ui.errorDetails # None

C8_SecondRunClean ==
    (script = "second" /\ ui.status = "loading")
        => /\ \A i \in 1..Len(ui.logs) : ui.logs[i].run = 2
           /\ ui.imageUrl = None

C8_Witness ==
    /\ page = "FetchBasics"
    /\ script = "second"
    /\ ui.status = "loading"
    /\ ui.step = 2
    /\ Len(ui.logs) >= 3

\* C9: every modeled failure of the request of a run (a connectivity
\* failure, a non-2xx status, a thrown parse error) enters the catch block
\* of the run function, which sets status to error and appends an
\* error-kind log entry containing the failure's message; on the Error
\* Handling page the catch block leaves both to two timers, each of which
\* does its part when it fires, and unless Reset was clicked in between the
\* entry is in logs when the second sets status to error.
FailsRequest(a, o) ==
    \/ o.k = "reject" /\ a.pc \in {"fetch", "json", "text"}
    \/ o.k = "response" /\ a.pc = "fetch" /\ ~ok(o.status)

C10_RunLeavesLoading ==
    (page \in ImagePages /\ script = "first" /\ runs = <<Gone>>)
        => ui.status \in {"success", "error"} /\ uncaught = {}

\* C11: the code of one run (its function and its callbacks) sets status to
\* a terminal value, success or error, at most once, so never both and never
\* one of them twice; a run that is over, and none of whose callbacks threw,
\* has set it exactly once.
C11_TerminalOnce ==
    \A r \in 1..Len(runs) :
        /\ terminals[r] <= 1
        /\ (runs[r].pc = "gone" /\ r \notin uncaught) => terminals[r] = 1

C11_Witness ==
    /\ page = "ErrorHandling"
    /\ runs = <<Gone>>
    /\ terminals = <<1>>
    /\ uncaught = {}
    /\ ui.status = "error"
    /\ ui.step = 4

\* C12: every entry of logs was appended by the run started last, and once
\* a new run has started no callback of an earlier run appends to logs or
\* changes step or status.
C12_LogsOfLatestRun ==
    [][ /\ \A i \in 1..Len(ui'.logs) : ui'.logs[i].run = Len(runs')
        /\ (Fire /\ Head(timers).run < Len(runs))
              => /\ ui'.logs = ui.logs
                 /\ ui'.step = ui.step
                 /\ ui'.status = ui.status
      ]_vars

\* C13: status changes only to loading by a Run click, from loading to
\* success or error, or to idle by a reset; it never goes from idle to
\* success or error, nor between success and error.
C13_StatusTransitions ==
    [][ui'.status # ui.status
          => \/ RunClick /\ ui'.status = "loading"
             \/ ResetClick /\ ui'.status = "idle"
             \/ ui.status = "loading" /\ ui'.status \in {"success", "error"}
      ]_vars

\* C14: when Reset was clicked while the request of a run was in flight, the
\* later resolution or rejection of that request changes neither status,
\* step, the result fields nor logs, and schedules no callback.
C14_ResolutionAfterResetIgnored ==
    [][\A r \in 1..Len(runs) :
          (runs[r].pc = "fetch" /\ runs[r].byReset /\ Settle(r))
             => ui' = ui /\ timers' = timers
      ]_vars

\* C15: in App, whatever tab buttons, Previous and Next are clicked, active
\* is the id of one of the seven TABS, the current index is within 0..6, the
\* one page rendered is the component of the tab with that id, and Previous
\* on the first tab and Next on the last tab change nothing.
C15_ActiveIsATab ==
    [][page = "App"
          => /\ total = 7
             /\ \A a \in {active, active'} :
                   /\ \E i \in 0..(total - 1) : TabAt(i).id = a
                   /\ findIndex(a) \in 0..6
             /\ ActivePage' = TabAt(currentIndex').component
             /\ ActivePage' \in {TABS[i].component : i \in 1..Len(TABS)}
             /\ (goPrev /\ currentIndex = 0) => active' = active
             /\ (goNext /\ currentIndex = total - 1) => active' = active
      ]_vars

C15_Witness ==
    /\ page = "App"
    /\ active = "use-hook"
    /\ currentIndex = total - 1
    /\ ActivePage = "UseHook"

\* The step the last narration callback of a successful run sets.
FinalStep(p) ==
    CASE p \in {"FetchBasics", "XhrLegacy"} -> 3
      [] p \in {"PromisesAsync", "ResponseParsing", "ErrorHandling"} -> 4
      [] p = "RequestConfig" -> 7

\* C16: in every reachable state, whatever the interleaving of Run, Reset,
\* timers and network resolution, status success implies that step is the
\* final step of the page.
C16_SuccessAtFinalStep ==
    (page \in Pages /\ ui.status = "success") => ui.step = FinalStep(page)

\* The highest step a callback scheduled before the request is awaited sets.
PreResponseSteps(p) ==
    CASE p \in {"FetchBasics", "XhrLegacy", "PromisesAsync", "ErrorHandling"} -> 2
      [] p = "ResponseParsing" -> 1
      [] p = "RequestConfig" -> 5

C18_TypeByScenario ==
    [][\A r \in 1..Len(runs) :
          (page = "ErrorHandling" /\ Settle(r) /\ runs[r].err = None /\ runs'[r].err # None)
             => /\ ui'.errorDetails # None
                /\ ui'.errorDetails[1].type =
                      CASE runs[r].selectedMode = "network" -> "Network Error"
                        [] runs[r].selectedMode = "http"    -> "HTTP Error"
                        [] runs[r].selectedMode = "parsing" -> "Parsing Error"
                        [] runs[r].selectedMode = "success" -> "Unknown Error"
      ]_vars

C18_Witness ==
    /\ page = "ErrorHandling"
    /\ nselects = 1
    /\ ui.mode = "network"
    /\ ui.errorDetails # None
    /\ ui.errorDetails[1].type = "Unknown Error"
    /\ ui.errorDetails[1].name = "TypeError"

\* C19: on the Error Handling page, in every reachable state, also of runs
\* that a Reset click interrupted, status error implies that errorDetails is
\* not null.
C19_ErrorHasDetails ==
    (page = "ErrorHandling" /\ ui.status = "error") => ui.errorDetails # None

\* C20: between one reset() and the next (a Reset click, or the reset at the
\* start of a Run) step never decreases: every narration callback that
\* fires leaves step at or above its previous value.
C20_StepNeverDecreases ==
    [][Fire => ui'.step >= ui.step]_vars

\* The log entries that narrate the sending of the request, report the
\* response and report the parsed body.
IsSending(e) ==
    e.msg[1] \in {"Browser sending HTTP request to API...", "Browser initiating ",
                  "Browser initiating fetch request", "Sending HTTP request to API...",
                  "Browser sending fetch request..."}
IsReceived(e) ==
    e.msg[1] \in {"Response received. Status: ", "Response received with status: ",
                  "Response received - Status: "}
IsParsed(e) ==
    e.msg[1] \in {"JSON parsed successfully.", "JSON data parsed successfully",
                  "Response data parsed successfully", "JSON parsing successful",
                  "Text parsing successful"}

\* C21: within the log entries of one run the entry narrating the sending
\* of the request comes before the entry reporting the response, which
\* comes before the entry reporting successful parsing, whatever the
\* latency of the request.
C21_LogOrder ==
    \A i, j \in 1..Len(ui.logs) :
        (i < j /\ ui.logs[i].run = ui.logs[j].run)
            => /\ ~(IsReceived(ui.logs[i]) /\ IsSending(ui.logs[j]))
               /\ ~(IsParsed(ui.logs[i]) /\ IsReceived(ui.logs[j]))
               /\ ~(IsParsed(ui.logs[i]) /\ IsSending(ui.logs[j]))

\* C27: on the Error Handling page the user-facing message and the label in
\* errorDetails.type are of the same category: the network message goes with
\* "Network Error", the server-error message with "HTTP Error", the format
\* message with "Parsing Error", the generic message with "Unknown Error".
C27_MessageAgreesWithType ==
    (page = "ErrorHandling" /\ ui.status = "error" /\ ui.errorDetails # None)
        => ui.errorDetails[1].type =
              CASE ui.message = NetworkMessage -> "Network Error"
                [] ui.message = HttpMessage    -> "HTTP Error"
                [] ui.message = ParsingMessage -> "Parsing Error"
                [] OTHER                       -> "Unknown Error"

\* C28: once a run has set status to success or error, no narration
\* callback of a run is pending, and step and logs stay as they are until
\* the next Run or Reset click.
C28_FrameAfterTerminal ==
    [][ui.status \in {"success", "error"}
          => /\ timers = <<>>
             /\ (ui'.step # ui.step \/ ui'.logs # ui.logs) => (RunClick \/ ResetClick)
      ]_vars

\* C29: on the Response Parsing page status success implies that the
\* preview panel has something to show for the mode selected now:
\* rawPreview is not empty when the mode is json or text, imageUrl is not
\* null when the mode is blob.
C29_PreviewMatchesMode ==
    (page = "ResponseParsing" /\ ui.status = "success")
        => /\ ui.mode \in {"json", "text"} => ui.rawPreview # <<>>
           /\ ui.mode = "blob" => ui.imageUrl # None

\* C22: on the use() page an animation shows the steps 1, 2, ..., 6 in this
\* order, each once: animationStep changes only by one step up during an
\* animation or to 1 when an animation starts; isAnimating falls only at
\* step 6, so that a finished animation rests at step 6; a step once left 0
\* never returns to 0.
C22_StepsInOrder ==
    [][page = "UseHook"
         => /\ hook'.animationStep # hook.animationStep
                => \/ hook'.count = hook.count + 1 /\ hook'.animationStep = 1
                   \/ /\ hook.isAnimating /\ hook'.count = hook.count
                      /\ hook'.animationStep = hook.animationStep + 1
                      /\ hook'.animationStep <= 6
            /\ hook'.count = hook.count + 1 => hook'.animationStep = 1 /\ hook'.isAnimating
            /\ (hook.isAnimating /\ ~hook'.isAnimating) => hook.animationStep = 6
            /\ (~hook'.isAnimating /\ hook'.count > 0) => hook'.animationStep = 6
            /\ hook.animationStep # 0 => hook'.animationStep # 0]_vars

C22_Witness ==
    page = "UseHook" /\ hook.count > 0 /\ hook.animationStep = 6 /\ ~hook.isAnimating

\* C23: on the use() page two animations never overlap: every pending timer
\* belongs to the animation started last, an animation starts only while
\* isAnimating is false, selectedPath does not change during an animation,
\* and no timer is pending while isAnimating is false.
C23_NoOverlap ==
    [][page = "UseHook"
         => /\ \A i \in 1..Len(hook.timers) : hook.timers[i].run = hook.count
            /\ ~hook.isAnimating => hook.timers = <<>>
            /\ hook'.count # hook.count => ~hook.isAnimating
            /\ hook.isAnimating => hook'.selectedPath = hook.selectedPath]_vars

C23_Witness ==
    /\ page = "UseHook" /\ hook.count = 2 /\ hook.isAnimating
    /\ hook.animationStep = 3 /\ Len(hook.timers) = 4

\* C24: on the overview page the last run started, once its request has
\* succeeded with a list whose first element has a url and the animation
\* timer is no longer pending, displays that image: catImage is that url and
\* showResult is true, whether the response came before or after the timer.
C24_ImageDisplayed ==
    page = "APIMethodsComparison"
        => LET r == Len(overview.reqs)
           IN  (/\ r > 0
                /\ \A i \in 1..r : overview.reqs[i].pc = "done"
                /\ overview.writer = r
                /\ overview.pendingImageRef = Some(Url(r))
                /\ overview.timers = <<>>)
                   => overview.catImage = Some(Url(r)) /\ overview.showResult

\* C25: on the overview page isAnimating is true exactly when showResult is
\* false, and catImage is null whenever isAnimating is true.
C25_AnimationHidesResult ==
    page = "APIMethodsComparison"
        => /\ overview.isAnimating <=> ~overview.showResult
           /\ overview.isAnimating => overview.catImage = None

C25_Witness ==
    /\ page = "APIMethodsComparison"
    /\ overview.isAnimating
    /\ overview.animationKey = 2
    /\ overview.pendingImageRef = Some(Url(2))

\* C26: on the overview page, while a request is unresolved the Run button
\* of every method tab is disabled (loading for the three fetch and axios
\* tabs, isLoading for React Query), a request starts only when none is
\* unresolved, and pendingImageRef is written by the last run started only.
C26_RunDisabledWhileUnresolved ==
    [][page = "APIMethodsComparison"
         => /\ (\E r \in 1..Len(overview.reqs) : overview.reqs[r].pc # "done")
                => overview.loading /\ isLoading(overview)
            /\ Len(overview'.reqs) > Len(overview.reqs)
                => \A r \in 1..Len(overview.reqs) : overview.reqs[r].pc = "done"
            /\ overview'.writer # overview.writer
                => overview'.writer = Len(overview.reqs)]_vars

====
